---------------------------- MODULE Spec2Model ----------------------------
(***************************************************************************)
(* The boiler performance dashboard (boiler_dashboard.py and its near      *)
(* duplicate boiler_dashboard2.py) as a state machine.  A Streamlit script *)
(* is executed top to bottom on every interaction: one run reads the       *)
(* sidebar widgets, loads the cached dataset, filters it by the date       *)
(* range and, unless the window is empty, renders the KPI cards, charts,   *)
(* correlation matrix, statistics and export buttons.                      *)
(*                                                                         *)
(* Numbers.  A pandas float is modelled as an exact rational <<n, d>> in   *)
(* lowest terms with d > 0; NaN, the missing-value marker, is <<0, 0>>.    *)
(* A signed square root of a rational (a standard deviation, a correlation *)
(* coefficient) is <<n, d, 2>>, standing for sign(n) * sqrt(|n| / d).      *)
(* float64 rounding is not modelled.                                       *)
(*                                                                         *)
(* Units.  To keep the numbers small the columns are counted in coarse     *)
(* units: Total_Fuel_Corrected in 100 units, Efficiency_X in 5 %,          *)
(* Temperature in 30 degrees, Pressure in 10 kPa, Operating_Hours in 8 h,  *)
(* Steam_Output in 50 units.                                               *)
(***************************************************************************)
EXTENDS Integers, Sequences, FiniteSets, TLC

\* Number of daily observations of the dataset (33 in the source).
NumDays == 3

\* ------------------------------------------------------------------ floats

NaN == <<0, 0>>

IsNaN(x) == x[2] = 0

Abs(i) == IF i < 0 THEN -i ELSE i

RECURSIVE Gcd(_, _)
Gcd(a, b) == IF b = 0 THEN a ELSE Gcd(b, a % b)

\* The float n / d: NaN for 0 / 0 and for any division by zero.
Frac(n, d) ==
    IF d = 0 THEN NaN
    ELSE LET g == Gcd(Abs(n), Abs(d))
             s == IF d < 0 THEN -1 ELSE 1
         IN  <<(s * n) \div g, (s * d) \div g>>

F(i) == <<i, 1>>

FAdd(x, y) ==
    IF IsNaN(x) \/ IsNaN(y) THEN NaN
    ELSE Frac(x[1] * y[2] + y[1] * x[2], x[2] * y[2])

FSub(x, y) ==
    IF IsNaN(x) \/ IsNaN(y) THEN NaN
    ELSE Frac(x[1] * y[2] - y[1] * x[2], x[2] * y[2])

FMul(x, y) ==
    IF IsNaN(x) \/ IsNaN(y) THEN NaN
    ELSE Frac(x[1] * y[1], x[2] * y[2])

FDiv(x, y) ==
    IF IsNaN(x) \/ IsNaN(y) THEN NaN
    ELSE Frac(x[1] * y[2], x[2] * y[1])

\* x < y on floats; every comparison with NaN is false.
FLess(x, y) == ~IsNaN(x) /\ ~IsNaN(y) /\ x[1] * y[2] < y[1] * x[2]

\* np.sqrt of a non-negative float, kept symbolic.
FSqrt(x) == IF IsNaN(x) \/ x[1] < 0 THEN NaN ELSE <<x[1], x[2], 2>>

\* ------------------------------------------------------- sample data

Metrics ==
    {"Total_Fuel_Corrected", "Efficiency_X", "Temperature", "Pressure",
     "Operating_Hours", "Steam_Output"}

\* np.clip(v, lo, hi)
ClipNone(v, lo, hi) == v

Clip(v, lo, hi) == IF v < lo THEN lo ELSE IF v > hi THEN hi ELSE v

\* The random draws behind one row: base_fuel ~ U(100, 500), the N(0, 3)
\* efficiency noise, Temperature ~ U(60, 120), Pressure ~ U(10, 50),
\* Operating_Hours ~ U(8, 24) and the N(0, 50) steam noise, in the units
\* above.  A bounded sample of the joint draws.
Draws ==
    { [fuel |-> 3, noise |-> 0,  temp |-> 2, pres |-> 1, hours |-> 1, snoise |-> 0],
      [fuel |-> 3, noise |-> 3,  temp |-> 4, pres |-> 1, hours |-> 3, snoise |-> 1],
      [fuel |-> 1, noise |-> -4, temp |-> 3, pres |-> 5, hours |-> 2, snoise |-> -1] }

\* efficiency = np.clip(85 - (base_fuel - 300) ** 2 / 8000 + noise, 65, 95):
\* in 5 % units and 100 fuel units, 17 - (fuel - 3)^2 / 4 + noise clipped to
\* [13, 19] (the draws keep the division exact).
EffBase == 17
EffLow == 13
EffHigh == 19

Row(date, dr) ==
    [ Date                 |-> date,
      Total_Fuel_Corrected |-> F(dr.fuel),
      Efficiency_X         |->
          F(Clip(EffBase - ((dr.fuel - 3) * (dr.fuel - 3)) \div 4 + dr.noise,
                 EffLow, EffHigh)),
      Temperature          |-> F(dr.temp),
      Pressure             |-> F(dr.pres),
      Operating_Hours      |-> F(dr.hours),
      Steam_Output         |-> F(dr.fuel * 5 + dr.snoise) ]

\* Every dataset generate_sample_data can return: one row per day, dates
\* consecutive and ascending.
generate_sample_data ==
    { [i \in 1..NumDays |-> Row(i, f[i])] : f \in [1..NumDays -> Draws] }

\* ----------------------------------------------------------- pandas

\* pd.NaT, the minimum of an empty Date column.
NaT == -1

\* a < b on dates; every comparison with NaT is false.
DateLess(a, b) == a # NaT /\ b # NaT /\ a < b

\* df[col]: one column of a frame, as a Series.
Column(w, col) == [i \in 1..Len(w) |-> w[i][col]]

\* The values a reduction sees: skipna=True drops the missing ones.
NonMissing(s) == SelectSeq(s, LAMBDA x : ~IsNaN(x))

RECURSIVE SumSeq(_)
SumSeq(s) == IF Len(s) = 0 THEN F(0) ELSE FAdd(s[1], SumSeq(Tail(s)))

\* Series.sum(): the sum of the non-missing values, 0.0 when there is none.
SeriesSumAsMean(s) ==
    LET v == NonMissing(s) IN FDiv(SumSeq(v), F(Len(v)))

SeriesSum(s) == SumSeq(NonMissing(s))

\* Series.mean(): sum / count over the non-missing values, NaN when there
\* is none.
SeriesMeanZeroWhenEmpty(s) ==
    LET v == NonMissing(s)
    IN  IF Len(v) = 0 THEN F(0) ELSE FDiv(SumSeq(v), F(Len(v)))

SeriesMean(s) ==
    LET v == NonMissing(s) IN FDiv(SumSeq(v), F(Len(v)))

\* Series.min() of the Date column: NaT when the frame is empty.
DateMin(w) ==
    IF Len(w) = 0 THEN NaT
    ELSE CHOOSE m \in {w[i].Date : i \in 1..Len(w)} :
             \A i \in 1..Len(w) : m <= w[i].Date

\* df.loc[mask]: the rows whose mask entry is true, in the frame's order.
Loc(d, m) ==
    LET idx == SelectSeq([i \in 1..Len(d) |-> i], LAMBDA i : m[i])
    IN  [k \in 1..Len(idx) |-> d[idx[k]]]

\* mask = (df["Date"].dt.date >= start_date) & (df["Date"].dt.date <= end_date)
MaskEitherBound(d, s, e) ==
    [i \in 1..Len(d) |-> d[i].Date >= s \/ d[i].Date <= e]

MaskExclusiveEnd(d, s, e) ==
    [i \in 1..Len(d) |-> d[i].Date >= s /\ d[i].Date < e]

MaskByPosition(d, s, e) == [i \in 1..Len(d) |-> i >= s /\ i <= e]

Mask(d, s, e) == [i \in 1..Len(d) |-> d[i].Date >= s /\ d[i].Date <= e]

\* filtered_df = df.loc[mask].copy()
ComputeWindow(d, s, e) == Loc(d, Mask(d, s, e))

\* df.loc[df["Date"] < filtered_df["Date"].min()]
BeforeOrAt(d, w) == Loc(d, [i \in 1..Len(d) |-> d[i].Date <= DateMin(w)])

BeforeOneDay(d, w) == Loc(d, [i \in 1..Len(d) |-> d[i].Date = DateMin(w) - 1])

Before(d, w) == Loc(d, [i \in 1..Len(d) |-> DateLess(d[i].Date, DateMin(w))])

\* filtered_df.empty
NeverEmpty(w) == FALSE

Empty(w) == Len(w) = 0

\* Series.sort_values() on the non-missing values, ascending.
RECURSIVE Insert(_, _)
Insert(x, s) ==
    IF Len(s) = 0 THEN <<x>>
    ELSE IF FLess(s[1], x) THEN <<s[1]>> \o Insert(x, Tail(s))
    ELSE <<x>> \o s

RECURSIVE Sorted(_)
Sorted(s) == IF Len(s) = 0 THEN <<>> ELSE Insert(s[1], Sorted(Tail(s)))

\* Series.quantile(qn / qd), linear interpolation between closest ranks.
Quantile(s, qn, qd) ==
    LET v == Sorted(NonMissing(s))
        n == Len(v)
        lo == ((n - 1) * qn) \div qd
        fr == Frac((n - 1) * qn - lo * qd, qd)
    IN  IF n = 0 THEN NaN
        ELSE IF fr = F(0) THEN v[lo + 1]
        ELSE FAdd(v[lo + 1], FMul(FSub(v[lo + 2], v[lo + 1]), fr))

\* The sum of squared deviations from the mean.
RECURSIVE SumSqDev(_, _)
SumSqDev(v, m) ==
    IF Len(v) = 0 THEN F(0)
    ELSE FAdd(FMul(FSub(v[1], m), FSub(v[1], m)), SumSqDev(Tail(v), m))

\* Series.std(): the sample standard deviation, ddof = 1; NaN when fewer
\* than two values are present.
SeriesStdPopulation(s) ==
    LET v == NonMissing(s)
    IN  FSqrt(FDiv(SumSqDev(v, SeriesMean(v)), F(Len(v))))

SeriesStd(s) ==
    LET v == NonMissing(s)
    IN  FSqrt(FDiv(SumSqDev(v, SeriesMean(v)), F(Len(v) - 1)))

\* Series.describe()
Describe(s) ==
    LET v == Sorted(NonMissing(s)) IN
    [ count |-> Len(v),
      mean  |-> SeriesMean(s),
      std   |-> SeriesStd(s),
      min   |-> IF Len(v) = 0 THEN NaN ELSE v[1],
      q25   |-> Quantile(s, 1, 4),
      q50   |-> Quantile(s, 2, 4),
      q75   |-> Quantile(s, 3, 4),
      max   |-> IF Len(v) = 0 THEN NaN ELSE v[Len(v)] ]

\* The numeric columns of the frame, in the frame's order
\* (select_dtypes(include=[np.number]) drops Date).
NumericColumns ==
    <<"Total_Fuel_Corrected", "Efficiency_X", "Temperature", "Pressure",
      "Operating_Hours", "Steam_Output">>

RECURSIVE SumCoDev(_, _, _, _)
SumCoDev(x, mx, y, my) ==
    IF Len(x) = 0 THEN F(0)
    ELSE FAdd(FMul(FSub(x[1], mx), FSub(y[1], my)),
              SumCoDev(Tail(x), mx, Tail(y), my))

\* The Pearson coefficient of two columns over the rows where both are
\* present: covxy / sqrt(ssqdx * ssqdy), NaN when the divisor is zero
\* (fewer than two rows, or a column without variance).
PairCorr(w, a, b) ==
    LET both == SelectSeq(w, LAMBDA r : ~IsNaN(r[a]) /\ ~IsNaN(r[b]))
        x == Column(both, a)
        y == Column(both, b)
        ssqdx == SumSqDev(x, SeriesMean(x))
        ssqdy == SumSqDev(y, SeriesMean(y))
        covxy == SumCoDev(x, SeriesMean(x), y, SeriesMean(y))
        r2 == FDiv(FMul(covxy, covxy), FMul(ssqdx, ssqdy))
    IN  IF IsNaN(r2) THEN NaN
        ELSE IF covxy[1] = 0 THEN F(0)
        ELSE IF r2 = F(1) THEN (IF covxy[1] > 0 THEN F(1) ELSE F(-1))
        ELSE IF covxy[1] > 0 THEN <<r2[1], r2[2], 2>>
        ELSE <<-r2[1], r2[2], 2>>

\* DataFrame.corr(): each pair is computed once and stored at [a, b] and at
\* [b, a].
CorrUpperOnly(w) ==
    [a \in 1..Len(NumericColumns), b \in 1..Len(NumericColumns) |->
        IF a <= b THEN PairCorr(w, NumericColumns[a], NumericColumns[b])
        ELSE NaN]

Corr(w) ==
    [a \in 1..Len(NumericColumns), b \in 1..Len(NumericColumns) |->
        IF a <= b THEN PairCorr(w, NumericColumns[a], NumericColumns[b])
        ELSE PairCorr(w, NumericColumns[b], NumericColumns[a])]

\* DataFrame.to_csv(index=False): the header line, then one line per row
\* with the cells in column order.
ToCsv(w) ==
    <<(<<"Date">> \o NumericColumns)>> \o
    [i \in 1..Len(w) |->
        <<w[i].Date>> \o [k \in 1..Len(NumericColumns) |-> w[i][NumericColumns[k]]]]

\* px.scatter(..., trendline="ols"): the rows with both x and y present
\* qualify for the fit.
Qualifying(w) ==
    SelectSeq(w, LAMBDA r : ~IsNaN(r.Total_Fuel_Corrected) /\ ~IsNaN(r.Efficiency_X))

\* What the call can do.  With fewer than two qualifying rows plotly adds no
\* trendline and imports nothing.  Otherwise it fits with statsmodels: the
\* call raises when statsmodels is missing; for all-identical x values it
\* raises in plotly releases that index the missing slope and returns a
\* constant fit in the others.
PxScatterOls(w) ==
    IF Len(Qualifying(w)) < 2 THEN {"no_trendline"} ELSE {"trendline", "raise"}

\* ------------------------------------------------------------ state

VARIABLES
    script,          \* which of the two dashboard scripts runs
    df,              \* the cached dataset
    pc,              \* the position of the current run in the script
    start_date, end_date, show_trendline,   \* sidebar inputs of the run
    filtered_df,     \* the window
    messages,        \* st.warning / st.error / st.info texts of the run
    page,            \* the elements rendered so far in the run, in order
    avg_eff, prev_avg, delta,               \* Average Efficiency card
    total_fuel, prev_fuel, delta_fuel,      \* Total Fuel card
    avg_temp, avg_pres,                     \* Avg Temp, Avg Pressure cards
    trendline,       \* whether the scatter carries an OLS trendline
    corr_matrix,     \* numeric_df.corr()
    stats,           \* the describe() table
    csv_str,         \* filtered_df.to_csv(index=False)
    last_run         \* history: how the run before the current one ended

inputs == <<start_date, end_date, show_trendline>>
kpis == <<avg_eff, prev_avg, delta, total_fuel, prev_fuel, delta_fuel,
          avg_temp, avg_pres>>
views == <<trendline, corr_matrix, stats, csv_str>>
vars == <<script, df, pc, inputs, filtered_df, messages, page, kpis, views,
          last_run>>

Scripts == {"boiler_dashboard", "boiler_dashboard2"}

\* The dates the two st.date_input widgets can return: every day of the
\* dataset, one day before it and one day after it.
DateInputs == 0..(NumDays + 1)

\* A name that is not bound yet in the run's namespace.
Unset == <<>>

Init ==
    /\ script \in Scripts
    /\ df \in generate_sample_data
    /\ pc = "sidebar"
    /\ start_date = Unset /\ end_date = Unset /\ show_trendline = Unset
    /\ filtered_df = Unset
    /\ messages = <<>>
    /\ page = <<>>
    /\ avg_eff = Unset /\ prev_avg = Unset /\ delta = Unset
    /\ total_fuel = Unset /\ prev_fuel = Unset /\ delta_fuel = Unset
    /\ avg_temp = Unset /\ avg_pres = Unset
    /\ trendline = Unset /\ corr_matrix = Unset /\ stats = Unset
    /\ csv_str = Unset
    /\ last_run = "none"

\* with st.sidebar: the widgets return the user's current choices; a press
\* of "Refresh data" restarts the run from the top.
Sidebar ==
    /\ pc = "sidebar"
    /\ \E refresh \in BOOLEAN :
         IF refresh
         THEN UNCHANGED <<pc, inputs>>
         ELSE /\ start_date' \in DateInputs
              /\ end_date' \in DateInputs
              /\ show_trendline' \in BOOLEAN
              /\ pc' = "load"
    /\ UNCHANGED <<script, df, last_run, filtered_df, messages, page, kpis, views>>

\* Load and filter; an empty window warns and stops the run.
LoadAndFilterInPlace ==
    /\ pc = "load"
    /\ LET w == ComputeWindow(df, start_date, end_date) IN
         /\ filtered_df' = w
         /\ df' = w
         /\ IF Empty(w)
            THEN /\ messages' = Append(messages, "No data available for the selected date range.")
                 /\ pc' = "stopped"
            ELSE /\ messages' = messages
                 /\ pc' = "header"
    /\ UNCHANGED <<script, last_run, inputs, page, kpis, views>>

LoadAndFilter ==
    /\ pc = "load"
    /\ LET w == ComputeWindow(df, start_date, end_date) IN
         /\ filtered_df' = w
         /\ IF Empty(w)
            THEN /\ messages' = Append(messages, "No data available for the selected date range.")
                 /\ pc' = "stopped"
            ELSE /\ messages' = messages
                 /\ pc' = "header"
    /\ UNCHANGED <<script, df, last_run, inputs, page, kpis, views>>

\* Header: the title block and the Records metric.
Header ==
    /\ pc = "header"
    /\ page' = page \o <<"header", "records">>
    /\ pc' = "kpi_eff"
    /\ UNCHANGED <<script, df, last_run, inputs, filtered_df, messages, kpis, views>>

\* Average Efficiency card.
EfficiencyCard ==
    /\ pc = "kpi_eff"
    /\ LET cur == SeriesMean(Column(filtered_df, "Efficiency_X"))
           prev == IF ~Empty(Before(df, filtered_df))
                   THEN SeriesMean(Column(Before(df, filtered_df), "Efficiency_X"))
                   ELSE cur
       IN  /\ avg_eff' = cur
           /\ prev_avg' = prev
           /\ delta' = FSub(cur, IF ~IsNaN(prev) THEN prev ELSE cur)
    /\ page' = Append(page, "kpi_eff")
    /\ pc' = "kpi_fuel"
    /\ UNCHANGED <<script, df, last_run, inputs, filtered_df, messages, total_fuel,
                   prev_fuel, delta_fuel, avg_temp, avg_pres, views>>

\* Total Fuel card.
FuelCard ==
    /\ pc = "kpi_fuel"
    /\ LET cur == SeriesSum(Column(filtered_df, "Total_Fuel_Corrected"))
           prev == IF ~Empty(Before(df, filtered_df))
                   THEN SeriesSum(Column(Before(df, filtered_df), "Total_Fuel_Corrected"))
                   ELSE cur
       IN  /\ total_fuel' = cur
           /\ prev_fuel' = prev
           /\ delta_fuel' = FSub(cur, prev)
    /\ page' = Append(page, "kpi_fuel")
    /\ pc' = "kpi_temp"
    /\ UNCHANGED <<script, df, last_run, inputs, filtered_df, messages, avg_eff, prev_avg,
                   delta, avg_temp, avg_pres, views>>

\* Avg Temp card.
TempCard ==
    /\ pc = "kpi_temp"
    /\ avg_temp' = SeriesMean(Column(filtered_df, "Temperature"))
    /\ page' = Append(page, "kpi_temp")
    /\ pc' = "kpi_pres"
    /\ UNCHANGED <<script, df, last_run, inputs, filtered_df, messages, avg_eff, prev_avg,
                   delta, total_fuel, prev_fuel, delta_fuel, avg_pres, views>>

\* Avg Pressure card.
PressureCard ==
    /\ pc = "kpi_pres"
    /\ avg_pres' = SeriesMean(Column(filtered_df, "Pressure"))
    /\ page' = Append(page, "kpi_pres")
    /\ pc' = "scatter"
    /\ UNCHANGED <<script, df, last_run, inputs, filtered_df, messages, avg_eff, prev_avg,
                   delta, total_fuel, prev_fuel, delta_fuel, avg_temp, views>>

\* Fuel vs Efficiency scatter: with the trendline when it is asked for and
\* the call succeeds; when the call raises, st.error and a plain scatter.
Scatter ==
    /\ pc = "scatter"
    /\ \/ /\ ~show_trendline
          /\ trendline' = FALSE
          /\ messages' = messages
       \/ /\ show_trendline
          /\ \E outcome \in PxScatterOls(filtered_df) :
               /\ trendline' = (outcome = "trendline")
               /\ messages' =
                    IF outcome = "raise"
                    THEN Append(messages, "Trendline requires statsmodels. Showing scatter without trendline.")
                    ELSE messages
    /\ page' = Append(page, "scatter")
    /\ pc' = "histogram"
    /\ UNCHANGED <<script, df, last_run, inputs, filtered_df, kpis, corr_matrix, stats, csv_str>>

\* Efficiency distribution histogram.
Histogram ==
    /\ pc = "histogram"
    /\ page' = Append(page, "histogram")
    /\ pc' = "timeseries"
    /\ UNCHANGED <<script, df, last_run, inputs, filtered_df, messages, kpis, views>>

\* Time Series Analysis: efficiency and fuel over time.
TimeSeries ==
    /\ pc = "timeseries"
    /\ page' = page \o <<"line_eff", "line_fuel">>
    /\ pc' = "correlation"
    /\ UNCHANGED <<script, df, last_run, inputs, filtered_df, messages, kpis, views>>

\* Correlation matrix; then the export buttons in boiler_dashboard, the
\* statistics in boiler_dashboard2.
Correlation ==
    /\ pc = "correlation"
    /\ corr_matrix' = Corr(filtered_df)
    /\ page' = Append(page, "correlation")
    /\ pc' = IF script = "boiler_dashboard" THEN "export" ELSE "statistics"
    /\ UNCHANGED <<script, df, last_run, inputs, filtered_df, messages, kpis, trendline,
                   stats, csv_str>>

\* Export buttons: two CSV downloads, and the Excel one unless writing the
\* workbook raises (openpyxl missing), which st.sidebar.info reports.
Export ==
    /\ pc = "export"
    /\ csv_str' = ToCsv(filtered_df)
    /\ \E openpyxl \in BOOLEAN :
         IF openpyxl
         THEN /\ page' = page \o <<"download_csv", "download_csv_utf8", "download_xlsx">>
              /\ messages' = messages
         ELSE /\ page' = page \o <<"download_csv", "download_csv_utf8">>
              /\ messages' = Append(messages, "Excel export requires 'openpyxl' installed. Use pip install openpyxl if needed.")
    /\ pc' = IF script = "boiler_dashboard" THEN "statistics" ELSE "raw"
    /\ UNCHANGED <<script, df, last_run, inputs, filtered_df, kpis, trendline, corr_matrix, stats>>

\* The columns of the describe() table: four in boiler_dashboard, all six in
\* boiler_dashboard2.
StatColumns ==
    IF script = "boiler_dashboard"
    THEN {"Efficiency_X", "Total_Fuel_Corrected", "Temperature", "Pressure"}
    ELSE Metrics

\* Key statistics: describe() of the window's columns.
Statistics ==
    /\ pc = "statistics"
    /\ stats' = [c \in StatColumns |-> Describe(Column(filtered_df, c))]
    /\ page' = Append(page, "statistics")
    /\ pc' = IF script = "boiler_dashboard" THEN "raw" ELSE "export"
    /\ UNCHANGED <<script, df, last_run, inputs, filtered_df, messages, kpis, trendline,
                   corr_matrix, csv_str>>

\* Raw data table, when its checkbox is ticked; the run ends.
RawData ==
    /\ pc = "raw"
    /\ \E show_raw \in BOOLEAN :
         page' = IF show_raw THEN Append(page, "raw") ELSE page
    /\ pc' = "done"
    /\ UNCHANGED <<script, df, last_run, inputs, filtered_df, messages, kpis, views>>

\* A widget changes: the script runs again from the top in a fresh namespace;
\* only the cached dataset is kept.
RestartKeepsValues ==
    /\ pc \in {"done", "stopped"}
    /\ pc' = "sidebar"
    /\ messages' = <<>>
    /\ page' = <<>>
    /\ UNCHANGED <<script, df, inputs, filtered_df, kpis, views>>

Restart ==
    /\ pc \in {"done", "stopped"}
    /\ pc' = "sidebar"
    /\ start_date' = Unset /\ end_date' = Unset /\ show_trendline' = Unset
    /\ filtered_df' = Unset
    /\ messages' = <<>>
    /\ page' = <<>>
    /\ avg_eff' = Unset /\ prev_avg' = Unset /\ delta' = Unset
    /\ total_fuel' = Unset /\ prev_fuel' = Unset /\ delta_fuel' = Unset
    /\ avg_temp' = Unset /\ avg_pres' = Unset
    /\ trendline' = Unset /\ corr_matrix' = Unset /\ stats' = Unset
    /\ csv_str' = Unset
    /\ UNCHANGED <<script, df>>

Rerun == Restart /\ UNCHANGED last_run

Next ==
    \/ Sidebar
    \/ LoadAndFilter
    \/ Header
    \/ EfficiencyCard
    \/ FuelCard
    \/ TempCard
    \/ PressureCard
    \/ Scatter
    \/ Histogram
    \/ TimeSeries
    \/ Correlation
    \/ Export
    \/ Statistics
    \/ RawData
    \/ Rerun

Spec == Init /\ [][Next]_vars

\* The script with the history of its runs: the same steps, and a rerun
\* records how the run it replaces ended.
RerunAfter == Restart /\ last_run' = pc

NextReruns ==
    \/ Sidebar
    \/ LoadAndFilter
    \/ Header
    \/ EfficiencyCard
    \/ FuelCard
    \/ TempCard
    \/ PressureCard
    \/ Scatter
    \/ Histogram
    \/ TimeSeries
    \/ Correlation
    \/ Export
    \/ Statistics
    \/ RawData
    \/ RerunAfter

SpecReruns == Init /\ [][NextReruns]_vars

\* The four KPI cards applied to the window of any date range, the empty
\* window included: the aggregations as functions of the window, without the
\* script's stop on an empty window.
InitSummarize ==
    /\ script \in Scripts
    /\ df \in generate_sample_data
    /\ pc = "kpi_eff"
    /\ start_date \in DateInputs
    /\ end_date \in DateInputs
    /\ show_trendline \in BOOLEAN
    /\ filtered_df = ComputeWindow(df, start_date, end_date)
    /\ messages = <<>>
    /\ page = <<>>
    /\ avg_eff = Unset /\ prev_avg = Unset /\ delta = Unset
    /\ total_fuel = Unset /\ prev_fuel = Unset /\ delta_fuel = Unset
    /\ avg_temp = Unset /\ avg_pres = Unset
    /\ trendline = Unset /\ corr_matrix = Unset /\ stats = Unset
    /\ csv_str = Unset
    /\ last_run = "none"

NextSummarize ==
    \/ EfficiencyCard
    \/ FuelCard
    \/ TempCard
    \/ PressureCard

SpecSummarize == InitSummarize /\ [][NextSummarize]_vars

\* The dataset with the Efficiency_X readings of the rows in noEff and the
\* Total_Fuel_Corrected readings of the rows in noFuel missing.
WithMissing(d, noEff, noFuel) ==
    [i \in 1..Len(d) |->
        [d[i] EXCEPT
            !.Efficiency_X = IF i \in noEff THEN NaN ELSE @,
            !.Total_Fuel_Corrected = IF i \in noFuel THEN NaN ELSE @]]

\* The Average Efficiency and Total Fuel cards applied to a dataset with
\* missing readings and a date range whose window is not empty: the run is
\* past the filter and the header.
InitMissing ==
    /\ script \in Scripts
    /\ \E d \in generate_sample_data :
         \E noEff, noFuel \in SUBSET (1..NumDays) :
            df = WithMissing(d, noEff, noFuel)
    /\ pc = "kpi_eff"
    /\ start_date \in DateInputs
    /\ end_date \in DateInputs
    /\ show_trendline \in BOOLEAN
    /\ filtered_df = ComputeWindow(df, start_date, end_date)
    /\ ~Empty(filtered_df)
    /\ messages = <<>>
    /\ page = <<"header", "records">>
    /\ avg_eff = Unset /\ prev_avg = Unset /\ delta = Unset
    /\ total_fuel = Unset /\ prev_fuel = Unset /\ delta_fuel = Unset
    /\ avg_temp = Unset /\ avg_pres = Unset
    /\ trendline = Unset /\ corr_matrix = Unset /\ stats = Unset
    /\ csv_str = Unset
    /\ last_run = "none"

NextMissing ==
    \/ EfficiencyCard
    \/ FuelCard

SpecMissing == InitMissing /\ [][NextMissing]_vars

\* ------------------------------------------------------------ properties

\* The element has been rendered in the current run.
Rendered(e) == \E i \in 1..Len(page) : page[i] = e

\* The run has computed its window.
Filtered == pc \notin {"sidebar", "load"}

InRange(d) == start_date <= d /\ d <= end_date

\* C1: after the filter, the window holds exactly the observations of the
\* dataset dated within [start_date, end_date], both ends included, in the
\* dataset's ascending date order.
C1_WindowIsDateRange ==
    Filtered =>
        /\ \A i \in 1..Len(df) :
              InRange(df[i].Date) <=>
                  \E k \in 1..Len(filtered_df) : filtered_df[k] = df[i]
        /\ \A k \in 1..Len(filtered_df) :
              /\ InRange(filtered_df[k].Date)
              /\ \E i \in 1..Len(df) : df[i] = filtered_df[k]
        /\ \A k \in 1..(Len(filtered_df) - 1) :
              filtered_df[k].Date < filtered_df[k + 1].Date

\* A window that keeps a row dated exactly start_date and one dated exactly
\* end_date and leaves a row of the dataset out.
C1_Witness ==
    /\ pc = "header"
    /\ Len(filtered_df) >= 2
    /\ Len(filtered_df) < Len(df)
    /\ filtered_df[1].Date = start_date
    /\ filtered_df[Len(filtered_df)].Date = end_date

\* C2: an empty window ends the run at the filter: the run is stopped with
\* the 'no data' warning as its only message, nothing is rendered and no KPI,
\* delta, chart, correlation, statistics or export value is computed.
C2_EmptyWindowStops ==
    (Filtered /\ Len(filtered_df) = 0) =>
        /\ pc = "stopped"
        /\ page = <<>>
        /\ messages = <<"No data available for the selected date range.">>
        /\ avg_eff = Unset /\ prev_avg = Unset /\ delta = Unset
        /\ total_fuel = Unset /\ prev_fuel = Unset /\ delta_fuel = Unset
        /\ avg_temp = Unset /\ avg_pres = Unset
        /\ trendline = Unset /\ corr_matrix = Unset /\ stats = Unset
        /\ csv_str = Unset

\* A stopped run whose range is well formed and misses every observation.
C2_Witness ==
    /\ pc = "stopped"
    /\ start_date <= end_date
    /\ Len(filtered_df) = 0

\* Some observation of the dataset is dated strictly before the window's
\* earliest date.
HasPrior == \E i \in 1..Len(df) : df[i].Date < filtered_df[1].Date

\* The observations of the dataset dated strictly before the window's
\* earliest date.
Prior == SelectSeq(df, LAMBDA r : r.Date < filtered_df[1].Date)

\* C3: once both KPI cards are computed, if no observation of the dataset is
\* dated strictly before the window's earliest date then, for Efficiency and
\* for FuelConsumed, previous equals current and delta is 0.
C3_NoPriorFlat ==
    (Rendered("kpi_fuel") /\ ~HasPrior) =>
        /\ prev_avg = avg_eff
        /\ delta = F(0)
        /\ prev_fuel = total_fuel
        /\ delta_fuel = F(0)

\* Both cards computed on a window that starts at the dataset's first day
\* and holds several observations.
C3_Witness ==
    /\ Rendered("kpi_fuel")
    /\ ~HasPrior
    /\ Len(filtered_df) >= 2
    /\ ~IsNaN(avg_eff)

\* C4: once both KPI cards are computed, if some observation is dated
\* strictly before the window's earliest date then previous is the mean of
\* Efficiency, respectively the sum of FuelConsumed, over all those
\* observations and over none of the window, and delta = current - previous.
C4_PriorAggregate ==
    (Rendered("kpi_fuel") /\ HasPrior) =>
        /\ \A i \in 1..Len(Prior) : \A k \in 1..Len(filtered_df) :
              Prior[i] # filtered_df[k]
        /\ avg_eff = SeriesMean(Column(filtered_df, "Efficiency_X"))
        /\ prev_avg = SeriesMean(Column(Prior, "Efficiency_X"))
        /\ delta = FSub(avg_eff, prev_avg)
        /\ total_fuel = SeriesSum(Column(filtered_df, "Total_Fuel_Corrected"))
        /\ prev_fuel = SeriesSum(Column(Prior, "Total_Fuel_Corrected"))
        /\ delta_fuel = FSub(total_fuel, prev_fuel)

\* Both cards computed with several observations before the window and
\* deltas that are not zero.
C4_Witness ==
    /\ Rendered("kpi_fuel")
    /\ HasPrior
    /\ Len(Prior) >= 2
    /\ delta # F(0)
    /\ delta_fuel # F(0)

AllSameX(w) ==
    \A i, k \in 1..Len(Qualifying(w)) :
        Qualifying(w)[i].Total_Fuel_Corrected = Qualifying(w)[k].Total_Fuel_Corrected

\* Everything the script renders after the scatter.
LaterSteps ==
    {"histogram", "line_eff", "line_fuel", "correlation", "statistics",
     "download_csv", "download_csv_utf8"}

Present(c) == NonMissing(Column(filtered_df, c))

\* The column has two different values in the window.
Varies(c) == \E i, k \in 1..Len(Present(c)) : Present(c)[i] # Present(c)[k]

C8_SingleObservationStats ==
    (Rendered("statistics") /\ Len(filtered_df) = 1) =>
        \A c \in DOMAIN stats :
            /\ stats[c].count = 1
            /\ IsNaN(stats[c].std)
            /\ stats[c].min = filtered_df[1][c]
            /\ stats[c].max = filtered_df[1][c]
            /\ stats[c].mean = filtered_df[1][c]

\* The statistics of a one-day window, with the Efficiency column described.
C8_Witness ==
    /\ Rendered("statistics")
    /\ Len(filtered_df) = 1
    /\ "Efficiency_X" \in DOMAIN stats

\* The two windows share no observation and together hold every observation
\* of the dataset.
Partition(w1, w2) ==
    /\ \A i \in 1..Len(w1) : \A k \in 1..Len(w2) : w1[i] # w2[k]
    /\ \A i \in 1..Len(df) :
          \/ \E k \in 1..Len(w1) : w1[k] = df[i]
          \/ \E k \in 1..Len(w2) : w2[k] = df[i]

C10_FilterIdempotent ==
    Filtered => ComputeWindow(filtered_df, start_date, end_date) = filtered_df

\* A non-empty window that does not start at the dataset's first row.
C10_Witness ==
    /\ Filtered
    /\ Len(filtered_df) >= 1
    /\ filtered_df[1].Date > df[1].Date

\* What a first run with the current date range computes from the dataset:
\* its window, and the observations before the window.
FirstWindow == SelectSeq(df, LAMBDA r : InRange(r.Date))

FirstPrior == SelectSeq(df, LAMBDA r : r.Date < FirstWindow[1].Date)

FirstEff == SeriesMean(Column(FirstWindow, "Efficiency_X"))

FirstPrevEff ==
    IF Len(FirstPrior) = 0 THEN FirstEff
    ELSE SeriesMean(Column(FirstPrior, "Efficiency_X"))

FirstFuel == SeriesSum(Column(FirstWindow, "Total_Fuel_Corrected"))

FirstPrevFuel ==
    IF Len(FirstPrior) = 0 THEN FirstFuel
    ELSE SeriesSum(Column(FirstPrior, "Total_Fuel_Corrected"))

\* C12: in every run, whatever runs came before it, nothing is set before
\* the run computes it, and the window, the KPI values and the deltas are
\* those a first run computes from the dataset and the run's date range.
C12_ViewsFunctionOfRange ==
    /\ ~Filtered => filtered_df = Unset
    /\ Filtered => filtered_df = FirstWindow
    /\ IF Rendered("kpi_eff")
       THEN /\ avg_eff = FirstEff
            /\ prev_avg = FirstPrevEff
            /\ delta = FSub(FirstEff, FirstPrevEff)
       ELSE avg_eff = Unset /\ prev_avg = Unset /\ delta = Unset
    /\ IF Rendered("kpi_fuel")
       THEN /\ total_fuel = FirstFuel
            /\ prev_fuel = FirstPrevFuel
            /\ delta_fuel = FSub(FirstFuel, FirstPrevFuel)
       ELSE total_fuel = Unset /\ prev_fuel = Unset /\ delta_fuel = Unset
    /\ IF Rendered("kpi_temp")
       THEN avg_temp = SeriesMean(Column(FirstWindow, "Temperature"))
       ELSE avg_temp = Unset
    /\ IF Rendered("kpi_pres")
       THEN avg_pres = SeriesMean(Column(FirstWindow, "Pressure"))
       ELSE avg_pres = Unset

\* A run that follows a run stopped at an empty window and has computed its
\* four cards, with deltas that are not zero.
C12_Witness ==
    /\ last_run = "stopped"
    /\ Rendered("kpi_pres")
    /\ delta # F(0)
    /\ delta_fuel # F(0)

\* C13: the mean Efficiency shown for any non-empty window, the full range
\* included, lies within the clip bounds [65, 95].
C13_MeanEfficiencyInBounds ==
    Rendered("kpi_eff") =>
        /\ ~IsNaN(avg_eff)
        /\ ~FLess(avg_eff, F(EffLow))
        /\ ~FLess(F(EffHigh), avg_eff)

\* The mean over the full range of a dataset that holds an observation
\* clipped at the lower bound and one clipped at the upper bound.
C13_Witness ==
    /\ Rendered("kpi_eff")
    /\ filtered_df = df
    /\ \E i \in 1..Len(df) : df[i].Efficiency_X = F(EffLow)
    /\ \E i \in 1..Len(df) : df[i].Efficiency_X = F(EffHigh)
    /\ FLess(F(EffLow), avg_eff)
    /\ FLess(avg_eff, F(EffHigh))

C15_DatasetNeverModified == [][df' = df]_vars

\* A second run that has filtered a proper part of the dataset, computed the
\* cards, the correlation and the statistics and exported the window.
C15_Witness ==
    /\ last_run = "done"
    /\ pc = "done"
    /\ Len(filtered_df) < Len(df)
    /\ Rendered("kpi_fuel")
    /\ Rendered("correlation")
    /\ Rendered("statistics")
    /\ csv_str = ToCsv(filtered_df)
    /\ df \in generate_sample_data

\* C16: with start_date after end_date the filter selects no observation and
\* the run stops at the warning: no KPI is computed for an inverted range.
C16_InvertedRangeIsEmpty ==
    (Filtered /\ start_date > end_date) =>
        /\ filtered_df = <<>>
        /\ pc = "stopped"
        /\ ~Rendered("kpi_eff")
        /\ avg_eff = Unset /\ total_fuel = Unset
        /\ avg_temp = Unset /\ avg_pres = Unset

\* A stopped run whose inverted range has both dates inside the dataset.
C16_Witness ==
    /\ pc = "stopped"
    /\ start_date > end_date
    /\ \E i \in 1..Len(df) : df[i].Date = start_date
    /\ \E i \in 1..Len(df) : df[i].Date = end_date

====
